---- MODULE Spec2Model ----
(***************************************************************************)
(* Model of url_crawl.py: the breadth-first, same-domain crawler that      *)
(* writes one section per page with text to a Word document.               *)
(*                                                                         *)
(* A URL is a sequence of one-character strings, so that normalize_url,    *)
(* urlparse and urljoin are computed on the characters as the code does.   *)
(* The web server is the environment: each session.get draws its response  *)
(* (an exception, or a body with some text and some hrefs) from a bounded  *)
(* set.                                                                    *)
(*                                                                         *)
(* Spec is crawl_and_extract on any site, ChainSpec and SiteSpec are the   *)
(* same crawl on particular sites, MainSpec is main around the crawl, and  *)
(* NormalizeSpec and SameDomainSpec call the two pure functions alone.     *)
(***************************************************************************)
EXTENDS Naturals, Integers, Sequences, FiniteSets, TLC

VARIABLES
    start_url,      \* crawl_and_extract: start_url after normalize_url
    max_pages,      \* argument max_pages
    max_depth,      \* argument max_depth
    delay_seconds,  \* argument delay_seconds
    pc,             \* position of the single worker in crawl_and_extract
    q,              \* deque of <<url, depth>>
    visited,        \* set of URLs already dequeued
    pages_written,  \* counter of sections written
    doc,            \* the Document: sequence of sections
    cur,            \* the loop's locals url, depth
    saves,          \* number of doc.save calls
    sleeps,         \* number of time.sleep calls
    gets,           \* number of session.get calls issued per URL
    resp,           \* what the iteration's latest session.get led to: the
                    \* caller, success, the text, whether same_domain left a
                    \* link out, whether a link was already in visited
    args,           \* the arguments of the function under call (main's
                    \* parsed command line, a pure function's inputs)
    ret,            \* what that function returned
    web             \* on a site that answers link discovery the same way
                    \* during one crawl: its answer for each page

vars == <<start_url, max_pages, max_depth, delay_seconds, pc, q, visited,
          pages_written, doc, cur, saves, sleeps, gets, resp, args, ret, web>>

-----------------------------------------------------------------------------
(* Bounds of the model *)

MaxPages == 3
MaxDepth == 2
MaxLinks == 2

\* the chain scenario's ranges of max_pages and max_depth
ChainMaxPages == 5
ChainMaxDepth == 4

\* the longest string normalize_url is tried on
MaxUrlLen == 4

\* the largest --max-pages and --max-depth main is tried on
MainMaxPages == 1
MainMaxDepth == 1

-----------------------------------------------------------------------------
(* URLs as character sequences *)

HTTP == <<"h", "t", "t", "p">>
FTP == <<"f", "t", "p">>
SEP == <<":", "/", "/">>

\* The raw start URLs main may hand to crawl_and_extract.
StartUrls == { HTTP \o SEP \o <<"a", "/">> }

\* The raw start URLs of the chain scenario: any page of the chain.
ChainStarts ==
    { HTTP \o SEP \o <<"a", "/">>,
      HTTP \o SEP \o <<"a", "/", "b", "/", "#", "s">>,
      HTTP \o SEP \o <<"a", "/", "c">>,
      HTTP \o SEP \o <<"a", "/", "d", "/">> }

\* The values of --start-url main is tried on: with http://, with https://,
\* without a scheme, with another scheme.
MainStartUrls ==
    { HTTP \o SEP \o <<"a", "/">>,
      HTTP \o <<"s">> \o SEP \o <<"a", "/">>,
      <<"a", "/">>,
      FTP \o SEP \o <<"a", "/">> }

\* The href attributes a page of the modelled web may carry.
Hrefs ==
    { HTTP \o SEP \o <<"a", "/">>,                    \* back to the seed
      HTTP \o SEP \o <<"a", "/", "b">>,
      HTTP \o SEP \o <<"a", "/", "b", "/", "#", "s">>,  \* same page as /b
      <<"/", "c">>,                                   \* path-absolute reference
      HTTP \o SEP \o <<"a", "/", "d">>,
      HTTP \o SEP \o <<"o", "/", "b">>,               \* another host
      FTP \o SEP \o <<"a", "/", "b">> }               \* same host, not http(s)

Texts == {"", "lorem"}

RequestExceptions == {"HTTPError", "ConnectionError", "Timeout"}

\* index of the first occurrence of c in s, 0 when absent (str.find + 1)
RECURSIVE FindFrom(_, _, _)
FindFrom(s, c, i) ==
    IF i > Len(s) THEN 0
    ELSE IF s[i] = c THEN i
    ELSE FindFrom(s, c, i + 1)

Find(s, c) == FindFrom(s, c, 1)

StartsWith(s, p) == Len(s) >= Len(p) /\ SubSeq(s, 1, Len(p)) = p

SchemeChars == {"a", "b", "c", "d", "f", "h", "o", "p", "s", "t"}

\* urlparse(url).scheme: the characters before the first ":" when they
\* are all scheme characters, "" otherwise
Scheme(url) ==
    LET i == Find(url, ":") IN
    IF i > 1 /\ \A k \in 1..(i - 1) : url[k] \in SchemeChars
    THEN SubSeq(url, 1, i - 1)
    ELSE <<>>

AfterScheme(url) ==
    IF Scheme(url) = <<>> THEN url
    ELSE SubSeq(url, Len(Scheme(url)) + 2, Len(url))

\* first index >= i of a netloc delimiter, Len(s) + 1 when there is none
RECURSIVE NetlocEnd(_, _)
NetlocEnd(s, i) ==
    IF i > Len(s) THEN i
    ELSE IF s[i] \in {"/", "?", "#"} THEN i
    ELSE NetlocEnd(s, i + 1)

\* urlparse(url).netloc
Netloc(url) ==
    LET r == AfterScheme(url) IN
    IF StartsWith(r, <<"/", "/">>) THEN SubSeq(r, 3, NetlocEnd(r, 3) - 1)
    ELSE <<>>

\* urlparse(url).path, for an address without query or parameters
PathOf(url) ==
    LET r == AfterScheme(url) IN
    IF StartsWith(r, <<"/", "/">>) THEN SubSeq(r, NetlocEnd(r, 3), Len(r))
    ELSE r

\* the schemes of the model that urllib lists in uses_netloc
UsesNetloc == { HTTP, HTTP \o <<"s">>, FTP }

\* urlunparse of a scheme, a netloc and a path: an empty netloc is written
\* only for a scheme of uses_netloc
urlunsplit(scheme, netloc, path) ==
    LET withNetloc ==
            netloc # <<>>
            \/ (scheme \in UsesNetloc /\ ~StartsWith(path, <<"/", "/">>))
        rooted ==
            IF path # <<>> /\ path[1] # "/" THEN <<"/">> \o path ELSE path
        url == IF withNetloc THEN <<"/", "/">> \o netloc \o rooted ELSE path
    IN IF scheme = <<>> THEN url ELSE scheme \o <<":">> \o url

\* urldefrag(url)[0]: an address without "#" is returned as it is, any other
\* is parsed and put together again without its fragment
urldefrag(url) ==
    IF Find(url, "#") = 0 THEN url
    ELSE LET u == SubSeq(url, 1, Find(url, "#") - 1)
         IN urlunsplit(Scheme(u), Netloc(u), PathOf(u))

\* variant: only the last character is looked at
rstrip_one(s) ==
    IF s # <<>> /\ s[Len(s)] = "/" THEN SubSeq(s, 1, Len(s) - 1) ELSE s

\* str.rstrip("/"): every trailing slash is removed
RECURSIVE rstrip_slash(_)
rstrip_slash(s) ==
    IF s # <<>> /\ s[Len(s)] = "/" THEN rstrip_slash(SubSeq(s, 1, Len(s) - 1))
    ELSE s

\* variant: the slashes are stripped before the fragment is removed
normalize_url_strip_first(url) == urldefrag(rstrip_slash(url))

normalize_url(url) == rstrip_slash(urldefrag(url))

\* line 123: start_url.startswith(("http://", "https://"))
startswith_http(url) ==
    StartsWith(url, HTTP \o SEP) \/ StartsWith(url, HTTP \o <<"s">> \o SEP)

\* line 76: the values start_url may take after normalize_url
BaseUrls ==
    { normalize_url(u) :
        u \in StartUrls \cup ChainStarts
              \cup { m \in MainStartUrls : startswith_http(m) } }

HttpSchemes == { HTTP, HTTP \o <<"s">> }

\* variant: the netloc is not compared
same_domain_scheme_only(base, candidate) == Scheme(candidate) \in HttpSchemes

same_domain(base, candidate) ==
    /\ Scheme(candidate) \in HttpSchemes
    /\ Netloc(candidate) = Netloc(base)

\* urljoin(base, url) for the shapes of Hrefs: a reference with a scheme is
\* returned as it is, a path-absolute one takes the base's scheme and netloc
urljoin(base, url) ==
    IF url = <<>> THEN base
    ELSE IF Scheme(url) # <<>> THEN url
    ELSE Scheme(base) \o SEP \o Netloc(base) \o url

-----------------------------------------------------------------------------
(* Responses of the web server *)

\* what one session.get produces: an exception, or a page body with its
\* visible text and the href attributes of its anchors
Responses ==
    [exc : RequestExceptions, text : {""}, hrefs : {{}}]
    \cup [exc : {"none"}, text : Texts,
          hrefs : {hs \in SUBSET Hrefs : Cardinality(hs) <= MaxLinks}]

\* extract_text reads only the text of a body, get_sublinks only its anchors
TextResponses == { r \in Responses : r.hrefs = {} }
LinkResponses == { r \in Responses : r.text = "" }

\* variant: except requests.ConnectionError (Timeout included) only
IsConnectionFailure(e) == e \in {"ConnectionError", "Timeout"}

\* except requests.RequestException
IsRequestException(e) == e \in RequestExceptions

None == [type |-> "NoneType", val |-> ""]
Str(t) == [type |-> "str", val |-> t]
Raised(e) == [type |-> "raise", val |-> e]

\* variant: if text is not None
Truthy_not_none(x) == x.type = "str"

\* Python truthiness of extract_text's result
Truthy(x) == x.type = "str" /\ x.val # ""

extract_text(r) ==
    IF r.exc # "none"
    THEN IF IsRequestException(r.exc) THEN None ELSE Raised(r.exc)
    ELSE Str(r.text)

\* the links get_sublinks adds to its set from one body
\* lines 59-60 for every base URL and href of the model, tabulated:
\* full_url = normalize_url(urljoin(base_url, a["href"]))
FullUrl ==
    [b \in BaseUrls, h \in Hrefs |-> normalize_url(urljoin(b, h))]

\* line 61 for every base URL and href: same_domain(base_url, full_url)
InScope ==
    [b \in BaseUrls, h \in Hrefs |-> same_domain(b, FullUrl[b, h])]

\* every URL the crawl can meet: the start URLs and the resolved hrefs
KnownUrls == BaseUrls \cup { FullUrl[b, h] : b \in BaseUrls, h \in Hrefs }

\* variant: every link is added, same_domain is not consulted
LinksIn_unfiltered(base_url, hrefs) ==
    { FullUrl[base_url, h] : h \in hrefs }

\* the links get_sublinks adds to its set from one body
LinksIn(base_url, hrefs) ==
    { FullUrl[base_url, h] : h \in { x \in hrefs : InScope[base_url, x] } }

\* the links of one body that get_sublinks leaves out
DroppedIn(base_url, hrefs) ==
    { FullUrl[base_url, h] : h \in { x \in hrefs : ~InScope[base_url, x] } }

get_sublinks(base_url, r) ==
    IF r.exc # "none"
    THEN IF IsRequestException(r.exc)
         THEN [type |-> "set", val |-> {}]
         ELSE [type |-> "raise", val |-> {}]
    ELSE [type |-> "set", val |-> LinksIn(base_url, r.hrefs)]

\* the orders in which a for loop may iterate over a set
Orders(S) ==
    { s \in [1..Cardinality(S) -> S] : { s[i] : i \in 1..Cardinality(S) } = S }

-----------------------------------------------------------------------------
(* crawl_and_extract *)

\* variant: the loop stops one page short of the budget
LoopCond_early == q # <<>> /\ pages_written < max_pages - 1

\* variant: the loop ignores the page budget
LoopCond_no_budget == q # <<>>

\* while q and pages_written < max_pages
LoopCond == q # <<>> /\ pages_written < max_pages

\* variant: the front entry is read but not removed
PopLeft_peek(queue) == queue

\* q.popleft(): the queue that remains
PopLeft(queue) == Tail(queue)

\* variant: no visited check
AlreadyVisited_never(url) == FALSE

\* if url in visited: continue
AlreadyVisited(url) == url \in visited

\* variant: depth <= max_depth
DepthOk_inclusive(depth) == depth <= max_depth

\* if depth < max_depth
DepthOk(depth) == depth < max_depth

\* variant: q.appendleft(entry)
Enqueue_left(queue, entry) == <<entry>> \o queue

\* q.append(entry)
Enqueue(queue, entry) == Append(queue, entry)

\* for link in sublinks: if link not in visited: q.append((link, depth + 1))
RECURSIVE PushAll(_, _, _)
PushAll(queue, order, depth) ==
    IF order = <<>> THEN queue
    ELSE PushAll(IF Head(order) \notin visited
                 THEN Enqueue(queue, <<Head(order), depth + 1>>)
                 ELSE queue,
                 Tail(order), depth)

NoEntry == [url |-> <<>>, depth |-> 0]

\* crawl_and_extract entered directly: no caller's arguments are modelled
NoArgs == [fn |-> "none"]

\* the site's answers are not fixed in advance
NoWeb == <<>>

NoResponse ==
    [fn |-> "none", ok |-> TRUE, text |-> "", filtered |-> FALSE,
     revisit |-> FALSE]

\* session.get(url, ...): one more request for url
Get(url) ==
    IF url \in DOMAIN gets
    THEN [gets EXCEPT ![url] = @ + 1]
    ELSE gets @@ (url :> 1)

\* lines 76-84: the state before the loop, for a start URL among starts,
\* max_pages up to pages and max_depth up to depths (main, lines 136-137,
\* passes max_pages >= 1 and max_depth >= 0); the site is left open
InitFrom(starts, pages, depths) ==
    /\ start_url \in { normalize_url(u) : u \in starts }
    /\ max_pages \in 1..pages
    /\ max_depth \in 0..depths
    /\ delay_seconds \in {0, 1}
    /\ pc = "loop"
    /\ q = << <<start_url, 0>> >>
    /\ visited = {}
    /\ pages_written = 0
    /\ doc = <<>>
    /\ cur = NoEntry
    /\ saves = 0
    /\ sleeps = 0
    /\ gets = <<>>
    /\ resp = NoResponse
    /\ args = NoArgs
    /\ ret = None

Init == InitFrom(StartUrls, MaxPages, MaxDepth) /\ web = NoWeb

\* lines 86-90: the loop test, the pop and the visited check
Pop ==
    /\ pc = "loop"
    /\ LoopCond
    /\ LET url == Head(q)[1]
           depth == Head(q)[2]
       IN /\ q' = PopLeft(q)
          /\ cur' = [url |-> url, depth |-> depth]
          /\ IF AlreadyVisited(url)
             THEN UNCHANGED visited /\ pc' = "loop"
             ELSE visited' = visited \cup {url} /\ pc' = "extract"
    /\ resp' = NoResponse
    /\ UNCHANGED <<start_url, max_pages, max_depth, delay_seconds,
                   pages_written, doc, saves, sleeps, gets, args, ret, web>>

\* variant: the sleep is indented into the if depth < max_depth block
Sleep_in_depth_branch(n) ==
    IF delay_seconds > 0 /\ pc = "sublinks" THEN n + 1 ELSE n

\* lines 105-106: if delay_seconds > 0: time.sleep(delay_seconds)
Sleep(n) == IF delay_seconds > 0 THEN n + 1 ELSE n

\* any site: the request for a URL may be answered with any response
AnyTextResponse == [url \in KnownUrls |-> TextResponses]
AnyLinkResponse == [url \in KnownUrls |-> LinkResponses]

\* lines 93-99 (and 105-106 when the depth test fails), on a site that
\* answers the request for url with one of R[url]:
\* text = extract_text(...); if text: add a section; if depth < max_depth
ExtractTextFrom(R) ==
    /\ pc = "extract"
    /\ \E r \in R[cur.url] :
         LET text == extract_text(r) IN
         /\ gets' = Get(cur.url)
         /\ resp' = [fn |-> "extract_text", ok |-> r.exc = "none",
                     text |-> r.text, filtered |-> FALSE, revisit |-> FALSE]
         /\ IF text.type = "raise"
            THEN pc' = "raised" /\ UNCHANGED <<doc, pages_written, sleeps>>
            ELSE /\ IF Truthy(text)
                    THEN /\ doc' = Append(doc, [heading |-> cur.url,
                                                paragraph |-> text.val,
                                                depth |-> cur.depth])
                         /\ pages_written' = pages_written + 1
                    ELSE UNCHANGED <<doc, pages_written>>
                 /\ IF DepthOk(cur.depth)
                    THEN pc' = "sublinks" /\ UNCHANGED sleeps
                    ELSE pc' = "loop" /\ sleeps' = Sleep(sleeps)
    /\ UNCHANGED <<start_url, max_pages, max_depth, delay_seconds, q, visited,
                   cur, saves, args, ret, web>>

ExtractText == ExtractTextFrom(AnyTextResponse)

\* lines 100-106, on a site that answers the request for url with one of
\* R[url]: sublinks = get_sublinks(...); push the unvisited ones; sleep
GetSublinksFrom(R) ==
    /\ pc = "sublinks"
    /\ \E r \in R[cur.url] :
         LET sublinks == get_sublinks(start_url, r) IN
         /\ gets' = Get(cur.url)
         /\ resp' = [fn |-> "get_sublinks", ok |-> r.exc = "none",
                     text |-> "",
                     filtered |-> DroppedIn(start_url, r.hrefs) # {},
                     revisit |-> sublinks.val \cap visited # {}]
         /\ IF sublinks.type = "raise"
            THEN pc' = "raised" /\ UNCHANGED <<q, sleeps>>
            ELSE /\ \E order \in Orders(sublinks.val) :
                      q' = PushAll(q, order, cur.depth)
                 /\ sleeps' = Sleep(sleeps)
                 /\ pc' = "loop"
    /\ UNCHANGED <<start_url, max_pages, max_depth, delay_seconds, visited,
                   pages_written, doc, cur, saves, args, ret, web>>

GetSublinks == GetSublinksFrom(AnyLinkResponse)

\* line 108: the loop has ended; doc.save(output_file)
Save ==
    /\ pc = "loop"
    /\ ~LoopCond
    /\ saves' = saves + 1
    /\ pc' = "done"
    /\ UNCHANGED <<start_url, max_pages, max_depth, delay_seconds, q, visited,
                   pages_written, doc, cur, sleeps, gets, resp, args, ret,
                   web>>

Next == Pop \/ ExtractText \/ GetSublinks \/ Save

Spec == Init /\ [][Next]_vars

\* the single worker never stops between two statements
FairSpec == Spec /\ WF_vars(Next)

-----------------------------------------------------------------------------
(* The chain scenario: the site is A -> B -> C -> D, every page has text *)

PageA == HTTP \o SEP \o <<"a">>
PageB == HTTP \o SEP \o <<"a", "/", "b">>
PageC == HTTP \o SEP \o <<"a", "/", "c">>
PageD == HTTP \o SEP \o <<"a", "/", "d">>
Chain == <<PageA, PageB, PageC, PageD>>

ChainPos(u) == CHOOSE k \in 1..Len(Chain) : Chain[k] = u

\* the href attributes of the one anchor of each page but the last
ChainHrefs ==
    << { HTTP \o SEP \o <<"a", "/", "b", "/", "#", "s">> },
       { <<"/", "c">> },
       { HTTP \o SEP \o <<"a", "/", "d">> },
       {} >>

\* every page of the chain site is served, with text
ChainTextResponse ==
    [url \in { Chain[k] : k \in 1..Len(Chain) } |->
        { r \in TextResponses : r.exc = "none" /\ r.text # "" }]

\* every page of the chain site is served, with its one link
ChainLinkResponse ==
    [url \in { Chain[k] : k \in 1..Len(Chain) } |->
        { r \in LinkResponses :
            r.exc = "none" /\ r.hrefs = ChainHrefs[ChainPos(url)] }]

ChainInit == InitFrom(ChainStarts, ChainMaxPages, ChainMaxDepth) /\ web = NoWeb

ChainNext ==
    \/ Pop
    \/ ExtractTextFrom(ChainTextResponse)
    \/ GetSublinksFrom(ChainLinkResponse)
    \/ Save

ChainSpec == ChainInit /\ [][ChainNext]_vars

-----------------------------------------------------------------------------
(* A site that answers link discovery the same way during one crawl *)

\* the pages of the site (the seed and two more) and the hrefs they may carry
SitePages == { PageA, PageB, PageC }
HrefB == HTTP \o SEP \o <<"a", "/", "b", "/", "#", "s">>
HrefC == <<"/", "c">>
HrefO == HTTP \o SEP \o <<"o", "/", "b">>
SiteHrefs == { HrefB, HrefC, HrefO }

\* what the site may answer to get_sublinks' request for a page
SiteLinkResponses ==
    { r \in LinkResponses :
        r.hrefs \subseteq SiteHrefs /\ r.exc \in {"none", "Timeout"} }

Webs == [SitePages -> SiteLinkResponses]

SiteInit == InitFrom(StartUrls, MaxPages, MaxDepth) /\ web \in Webs

SiteNext ==
    \/ Pop
    \/ ExtractText
    \/ GetSublinksFrom([url \in SitePages |-> {web[url]}])
    \/ Save

SiteSpec == SiteInit /\ [][SiteNext]_vars

-----------------------------------------------------------------------------
(* normalize_url and same_domain called on their own *)

\* the variables of crawl_and_extract
crawl == <<start_url, max_pages, max_depth, delay_seconds, q, visited,
           pages_written, doc, cur, saves, sleeps, gets, resp>>

\* crawl_and_extract has not been entered
NotCrawling ==
    /\ start_url = <<>>
    /\ max_pages = 1
    /\ max_depth = 0
    /\ delay_seconds = 0
    /\ q = <<>>
    /\ visited = {}
    /\ pages_written = 0
    /\ doc = <<>>
    /\ cur = NoEntry
    /\ saves = 0
    /\ sleeps = 0
    /\ gets = <<>>
    /\ resp = NoResponse

\* a function is about to be called with one of the argument lists A
CallInit(A) ==
    /\ args \in A
    /\ ret = None
    /\ pc = "call"
    /\ web = NoWeb
    /\ NotCrawling

Bool(b) == [type |-> "bool", val |-> b]

\* every sequence over S of length at most n
SeqsUpTo(S, n) == UNION { [1..k -> S] : k \in 0..n }

\* the characters normalize_url and urldefrag look at, and one they do not
UrlChars == {"a", "/", "#", ":"}

\* the strings normalize_url is called with
RawUrls == SeqsUpTo(UrlChars, MaxUrlLen)

NormalizeInit == CallInit([fn : {"normalize_url"}, url : RawUrls])

\* lines 26-28: normalize_url(url) returns
NormalizeUrl ==
    /\ pc = "call"
    /\ args.fn = "normalize_url"
    /\ ret' = Str(normalize_url(args.url))
    /\ pc' = "return"
    /\ UNCHANGED <<crawl, args, web>>

NormalizeSpec == NormalizeInit /\ [][NormalizeUrl]_vars

\* the parts urlparse splits an address into (the scheme may be missing)
UrlSchemes == { HTTP, HTTP \o <<"s">>, FTP, <<>> }
UrlNetlocs ==
    { <<"a">>,                  \* a host
      <<"a", ":", "8">>,        \* the host with a port
      <<"b", ".", "a">>,        \* a subdomain of the host
      <<"u", "@", "a">>,        \* the host with user information
      <<"o">>,                  \* another host
      <<>> }
UrlPaths == { <<>>, <<"/">>, <<"/", "b">> }

UrlParts == [scheme : UrlSchemes, netloc : UrlNetlocs, path : UrlPaths]

\* the address string with these parts
Unparse(u) ==
    (IF u.scheme = <<>> THEN <<>> ELSE u.scheme \o <<":">>)
        \o <<"/", "/">> \o u.netloc \o u.path

SameDomainInit ==
    CallInit([fn : {"same_domain"}, base : UrlParts, candidate : UrlParts])

\* lines 31-34: same_domain(base, candidate) returns
SameDomain_call ==
    /\ pc = "call"
    /\ args.fn = "same_domain"
    /\ ret' = Bool(same_domain(Unparse(args.base), Unparse(args.candidate)))
    /\ pc' = "return"
    /\ UNCHANGED <<crawl, args, web>>

SameDomainSpec == SameDomainInit /\ [][SameDomain_call]_vars

-----------------------------------------------------------------------------
(* main *)

ExitCode(n) == [type |-> "int", val |-> n]

\* variant: the argument is passed on as it is
max_unclamped(lo, x) == x

\* lines 136-139: max(lo, x)
max(lo, x) == IF x < lo THEN lo ELSE x

\* lines 116-120: what parse_args may give (the output file name, lines
\* 127-131, is a string no step of the crawl reads)
MainArgs ==
    [fn : {"main"},
     start_url : MainStartUrls,
     max_pages : (-1)..MainMaxPages,
     max_depth : (-1)..MainMaxDepth,
     delay : {-1, 0, 1},
     timeout : {0, 10}]

\* main is entered: nothing of crawl_and_extract exists yet
MainInit ==
    /\ args \in MainArgs
    /\ ret = None
    /\ pc = "main"
    /\ web = NoWeb
    /\ NotCrawling

\* lines 122-125 and 133-140 with 76-84: the start URL is checked; main
\* returns 1, or enters crawl_and_extract with the other arguments made
\* max(1, .), max(0, .), max(0.0, .) (timeout, made max(1, .), is handed to
\* session.get, whose outcomes are all drawn anyway)
MainCall ==
    /\ pc = "main"
    /\ IF ~startswith_http(args.start_url)
       THEN /\ ret' = ExitCode(1)
            /\ pc' = "exit"
            /\ UNCHANGED crawl
       ELSE /\ start_url' = normalize_url(args.start_url)
            /\ max_pages' = max(1, args.max_pages)
            /\ max_depth' = max(0, args.max_depth)
            /\ delay_seconds' = max(0, args.delay)
            /\ q' = << <<start_url', 0>> >>
            /\ visited' = {}
            /\ pages_written' = 0
            /\ doc' = <<>>
            /\ pc' = "loop"
            /\ UNCHANGED <<cur, saves, sleeps, gets, resp, ret>>
    /\ UNCHANGED <<args, web>>

\* line 141: crawl_and_extract has returned; return 0
MainReturn ==
    /\ pc = "done"
    /\ args.fn = "main"
    /\ ret' = ExitCode(0)
    /\ pc' = "exit"
    /\ UNCHANGED <<crawl, args, web>>

\* a site whose pages carry no link but one back to http://a/
MainLinkResponse ==
    [url \in KnownUrls |->
        { r \in LinkResponses : r.hrefs \subseteq { HTTP \o SEP \o <<"a", "/">> } }]

MainNext ==
    \/ MainCall
    \/ Pop
    \/ ExtractText
    \/ GetSublinksFrom(MainLinkResponse)
    \/ Save
    \/ MainReturn

MainSpec == MainInit /\ [][MainNext]_vars

-----------------------------------------------------------------------------
(* Properties of the crawl *)

DocIdx == 1..Len(doc)
Headings == { doc[i].heading : i \in DocIdx }
Min(a, b) == IF a <= b THEN a ELSE b
Fetching == pc \in {"extract", "sublinks"}

\* C1: no address is requested more than once: over every session.get of
\* extract_text and get_sublinks, each URL is requested at most one time.
C1_AtMostOneGetPerUrl == \A u \in DOMAIN gets : gets[u] <= 1

\* C2: the number of sections of the document, and pages_written, never
\* exceed max_pages.
C2_BudgetRespected ==
    /\ Len(doc) <= max_pages
    /\ pages_written <= max_pages

\* the budget is reached while entries are still queued
C2_Witness ==
    /\ max_pages >= 2
    /\ pages_written = max_pages
    /\ Len(doc) = max_pages
    /\ q # <<>>

\* C3: no entry deeper than max_depth is ever in the queue, fetched or
\* written; with max_depth = 0 only the start page is fetched and the queue
\* never holds anything but the seed.
C3_DepthBound ==
    /\ \A i \in 1..Len(q) : q[i][2] <= max_depth
    /\ Fetching => cur.depth <= max_depth
    /\ \A i \in DocIdx : doc[i].depth <= max_depth
    /\ max_depth = 0 =>
         /\ q \in { <<>>, << <<start_url, 0>> >> }
         /\ DOMAIN gets \subseteq {start_url}
         /\ visited \subseteq {start_url}

\* a page at the deepest allowed level has been fetched and written, and the
\* crawl is over
C3_Witness ==
    /\ pc = "done"
    /\ max_depth >= 1
    /\ cur.depth = max_depth
    /\ resp.fn = "extract_text"
    /\ doc # <<>>
    /\ doc[Len(doc)].depth = max_depth

\* same_domain(b, u) for the URLs of the model, tabulated
SameDomain == [b \in BaseUrls, u \in KnownUrls |-> same_domain(b, u)]

Admissible(u) == u = start_url \/ SameDomain[start_url, u]

\* C4: every address fetched, queued or written, other than the seed, is in
\* scope of the start address: same_domain(start_url, address) is true.
C4_ScopeContainment ==
    /\ \A u \in DOMAIN gets : Admissible(u)
    /\ \A u \in visited : Admissible(u)
    /\ \A i \in 1..Len(q) : Admissible(q[i][1])
    /\ \A i \in DocIdx : Admissible(doc[i].heading)

\* a page other than the seed carried an out-of-scope link, and the crawl has
\* ended
C4_Witness ==
    /\ pc = "done"
    /\ cur.url # start_url
    /\ resp.fn = "get_sublinks"
    /\ resp.filtered

\* C5: the crawl terminates, also on a link graph with a cycle, and it ends
\* exactly when the queue is empty or pages_written has reached max_pages.
C5_Terminates ==
    /\ <>(pc = "done")
    /\ [](pc = "done" => (q = <<>> \/ pages_written >= max_pages))
    /\ [][(pc = "loop" /\ (q = <<>> \/ pages_written >= max_pages))
            => pc' = "done"]_vars

\* a page the seed links to links back to the seed (or to itself), no other
\* page was met, and the crawl has ended with an empty queue
C5_Witness ==
    /\ pc = "done"
    /\ q = <<>>
    /\ cur.depth = 1
    /\ visited = {start_url, cur.url}
    /\ resp.fn = "get_sublinks"
    /\ resp.revisit

\* C6: a failed fetch never aborts the crawl: the failed page gets no
\* section, and the crawl still runs to its end and saves the document.
C6_FailureDoesNotAbort ==
    /\ [][(pc = "extract" /\ ~resp'.ok) => doc' = doc]_vars
    /\ [](pc # "raised")
    /\ (~resp.ok ~> (pc = "done" /\ saves = 1))

\* A links to B, B's fetch fails, the saved document holds only A's section
C6_Witness ==
    /\ pc = "done"
    /\ saves = 1
    /\ Len(doc) = 1
    /\ doc[1].heading = start_url
    /\ cur.url # start_url
    /\ cur.depth = 1
    /\ resp.fn = "extract_text"
    /\ ~resp.ok

\* C7: doc.save is called exactly once, only after the loop has ended (queue
\* empty or budget reached), never while entries are processed.
C7_SaveOnceAfterLoop ==
    /\ saves = (IF pc = "done" THEN 1 ELSE 0)
    /\ pc = "done" => (q = <<>> \/ pages_written >= max_pages)

\* the document is saved with no section in it, after pages were fetched
C7_Witness ==
    /\ pc = "done"
    /\ saves = 1
    /\ doc = <<>>
    /\ Cardinality(visited) >= 2

\* C8: the sections are in breadth-first visitation order: each section is
\* appended for the page just dequeued, and depths never decrease along the
\* document.
C8_BreadthFirstOrder ==
    /\ [](\A i, j \in DocIdx : i < j => doc[i].depth <= doc[j].depth)
    /\ [][doc' # doc =>
            /\ pc = "extract"
            /\ Len(doc') = Len(doc) + 1
            /\ SubSeq(doc', 1, Len(doc)) = doc
            /\ doc'[Len(doc')].heading = cur.url
            /\ doc'[Len(doc')].depth = cur.depth]_vars

\* a page of depth 1 has just been written while a page of depth 2, found by
\* an earlier page of depth 1, is already waiting in the queue
C8_Witness ==
    /\ pc = "sublinks"
    /\ cur.depth = 1
    /\ doc # <<>>
    /\ doc[Len(doc)].heading = cur.url
    /\ \E i \in 1..Len(q) : q[i][2] = 2

\* C9: on a linear chain of n pages, all fetched with text, the document
\* holds exactly min(n, max_depth + 1, max_pages) sections, titled in chain
\* order from the start page, and no page beyond them is fetched.
C9_LinearChain ==
    pc = "done" =>
        LET first == ChainPos(start_url)
            n == Len(Chain) - first + 1
            k == Min(n, Min(max_depth + 1, max_pages))
        IN /\ Len(doc) = k
           /\ \A i \in 1..k : doc[i].heading = Chain[first + i - 1]
           /\ DOMAIN gets = { Chain[first + i - 1] : i \in 1..k }

\* the chain A -> B -> C -> D crawled with max_depth = 1: A and B are written,
\* C and D are never fetched
C9_Witness ==
    /\ pc = "done"
    /\ start_url = PageA
    /\ max_depth = 1
    /\ max_pages = ChainMaxPages
    /\ Len(doc) = 2
    /\ PageC \notin DOMAIN gets

\* C10: the number of distinct addresses dequeued and fetched never exceeds
\* max_pages.
C10_PagesCrawledBounded ==
    /\ Cardinality(visited) <= max_pages
    /\ Cardinality(DOMAIN gets) <= max_pages

\* C11: same_domain(base, candidate) is true if and only if the candidate's
\* scheme is http or https and the candidate's netloc (host and port) is
\* exactly the base's, for every pair of addresses.
C11_SameDomainIff ==
    pc = "return" =>
        ret.val = (/\ args.candidate.scheme \in { HTTP, HTTP \o <<"s">> }
                   /\ args.candidate.netloc = args.base.netloc)

\* an https candidate is accepted for an http base on the same host and port
C11_Witness ==
    /\ pc = "return"
    /\ ret.val
    /\ args.base.scheme = HTTP
    /\ args.candidate.scheme = HTTP \o <<"s">>
    /\ args.base.netloc = <<"a", ":", "8">>
    /\ args.base.path # args.candidate.path

\* C12: normalize_url is idempotent: normalizing its result once more gives
\* the same address, for every input (several trailing slashes, a fragment,
\* a fragment that ends in a slash).
C12_NormalizeIdempotent ==
    pc = "return" => normalize_url(ret.val) = ret.val

\* an input with a fragment that ends in a slash, and slashes before it
C12_Witness ==
    /\ pc = "return"
    /\ args.url = <<"a", "/", "#", "/">>
    /\ ret.val = <<"a">>

EndsInSlash(s) == s # <<>> /\ s[Len(s)] = "/"

\* C18 as stated: normalize_url returns the defragmented URL with exactly
\* one trailing "/" removed when it ends in "/", and the defragmented URL
\* unchanged otherwise.
C18_OneTrailingSlashRemoved ==
    pc = "return" =>
        LET d == urldefrag(args.url)
        IN ret.val = IF EndsInSlash(d) THEN SubSeq(d, 1, Len(d) - 1) ELSE d

\* C18, amended: normalize_url returns the defragmented URL with every
\* trailing "/" removed: the result has no fragment, is the defragmented URL
\* up to its last character other than "/", and does not end in "/".
C18_AllTrailingSlashesRemoved ==
    pc = "return" =>
        LET d == urldefrag(args.url)
            r == ret.val
        IN /\ Find(r, "#") = 0
           /\ Len(r) <= Len(d)
           /\ SubSeq(d, 1, Len(r)) = r
           /\ \A i \in (Len(r) + 1)..Len(d) : d[i] = "/"
           /\ ~EndsInSlash(r)

\* an address that ends in two slashes loses both
C18_Witness ==
    /\ pc = "return"
    /\ args.url = <<"a", "/", "/">>
    /\ ret.val = <<"a">>

\* the start URL carries an explicit http:// or https://
ExplicitHttpScheme(u) ==
    \E p \in HttpSchemes :
        Len(u) >= Len(p) + 3 /\ SubSeq(u, 1, Len(p) + 3) = p \o SEP

\* a bound of the command line is outside its allowed range
BoundOutOfRange(a) ==
    a.max_pages < 1 \/ a.max_depth < 0 \/ a.delay < 0 \/ a.timeout < 1

\* C13 as stated: when the start URL lacks an explicit http:// or https://
\* scheme or a bound is outside its allowed range, main returns a non-zero
\* exit code without any fetch and without writing a document; otherwise it
\* returns 0 on completion.
C13_InvalidConfigFatal ==
    IF ~ExplicitHttpScheme(args.start_url) \/ BoundOutOfRange(args)
    THEN /\ gets = <<>>
         /\ saves = 0
         /\ pc = "exit" => ret.val # 0
    ELSE pc = "exit" => ret.val = 0

\* C13, amended: a start URL without an explicit http:// or https:// is
\* fatal: main returns 1 without any fetch and without writing a document.
\* A bound outside its allowed range is not: it is replaced by the nearest
\* allowed value, the crawl runs with it, the document is saved and main
\* returns 0, even with zero pages written.
C13_InvalidUrlFatalBoundsClamped ==
    IF ~ExplicitHttpScheme(args.start_url)
    THEN /\ gets = <<>>
         /\ saves = 0
         /\ doc = <<>>
         /\ pc \in {"main", "exit"}
         /\ pc = "exit" => ret.val = 1
    ELSE /\ pc = "exit" => (ret.val = 0 /\ saves = 1)
         /\ pc # "main" =>
              /\ max_pages >= 1
              /\ args.max_pages >= 1 => max_pages = args.max_pages
              /\ args.max_pages < 1 => max_pages = 1
              /\ max_depth >= 0
              /\ args.max_depth >= 0 => max_depth = args.max_depth
              /\ args.max_depth < 0 => max_depth = 0
              /\ delay_seconds >= 0
              /\ args.delay >= 0 => delay_seconds = args.delay
              /\ args.delay < 0 => delay_seconds = 0

\* main returned 0 after a crawl with every bound out of range: the page was
\* fetched, no section was written, the document was saved
C13_Witness ==
    /\ pc = "exit"
    /\ ret.val = 0
    /\ args.max_pages < 1
    /\ args.max_depth < 0
    /\ args.delay < 0
    /\ args.timeout < 1
    /\ gets # <<>>
    /\ doc = <<>>
    /\ saves = 1

\* C14 as stated: when the fetch of a dequeued address fails, nothing is
\* recorded in the document and no child is enqueued: the queue after the
\* step holds exactly the entries it held after the pop.
C14_FailedFetchEnqueuesNothing ==
    /\ [][(pc = "extract" /\ ~resp'.ok) => doc' = doc]_vars
    /\ [][(pc = "sublinks" /\ resp.fn = "extract_text" /\ ~resp.ok)
            => q' = q]_vars

\* the page each in-scope href of the site leads to
SiteLink == (HrefB :> PageB) @@ (HrefC :> PageC)

\* the pages a page of the site links to, when its link discovery succeeds
Succ(u) ==
    IF u \in SitePages /\ web[u].exc = "none"
    THEN { SiteLink[h] : h \in web[u].hrefs \cap DOMAIN SiteLink }
    ELSE {}

\* the entries pushed for the pages of order, at depth
Entries(order, depth) == [i \in 1..Len(order) |-> <<order[i], depth>>]

\* C15: when a page is fetched and its text is empty, no section is appended
\* and pages_written is unchanged, yet if depth < max_depth link discovery
\* still runs and the page's in-scope links not yet visited are enqueued at
\* depth + 1.
C15_EmptyTextStillEnqueues ==
    /\ [][(pc = "extract" /\ resp'.ok /\ resp'.text = "") =>
            /\ doc' = doc
            /\ pages_written' = pages_written
            /\ cur.depth < max_depth => pc' = "sublinks"]_vars
    /\ [][(pc = "sublinks" /\ resp.ok /\ resp.text = "") =>
            \E order \in Orders(Succ(cur.url) \ visited) :
                q' = q \o Entries(order, cur.depth + 1)]_vars

\* a page found at depth 1 was fetched and has no text: no section was added
\* for it, and link discovery is about to run on it, with a link of its own
\* to a page not yet visited
C15_Witness ==
    /\ pc = "sublinks"
    /\ resp.fn = "extract_text"
    /\ resp.ok
    /\ resp.text = ""
    /\ cur.depth = 1
    /\ cur.url \notin Headings
    /\ doc # <<>>
    /\ Succ(cur.url) \ visited # {}

\* C16 as stated: once pages_written has reached max_pages, no new fetch of
\* any address is issued and no new step begins: no entry is popped, no
\* section is appended, and the entries still queued stay unprocessed.
C16_NothingAfterBudget ==
    [][pages_written >= max_pages =>
        /\ gets' = gets
        /\ doc' = doc
        /\ visited' = visited
        /\ cur' = cur]_vars

\* C17: with delay_seconds > 0 the crawl sleeps once after every processed
\* entry, before the next entry is popped, whether its fetch succeeded,
\* failed or gave no text; an entry skipped as already visited is the only
\* one followed by no sleep (and with delay_seconds = 0 there is no sleep).
C17_DelayAfterEveryProcessedEntry ==
    /\ [](sleeps = IF delay_seconds > 0
                   THEN Cardinality(visited) - (IF Fetching THEN 1 ELSE 0)
                   ELSE 0)
    /\ [][(Fetching /\ pc' = "loop" /\ delay_seconds > 0)
            => sleeps' = sleeps + 1]_vars
    /\ [][(pc = "loop" /\ pc' = "loop") => sleeps' = sleeps]_vars

\* a crawl with a delay has ended: three pages were processed, one of them
\* written, each followed by a sleep, and the entry popped last was skipped
\* as already visited
C17_Witness ==
    /\ pc = "done"
    /\ delay_seconds > 0
    /\ sleeps = 3
    /\ Cardinality(visited) = 3
    /\ Len(doc) = 1
    /\ resp = NoResponse

\* C19: in every reachable state pages_written is the number of sections,
\* every section title is in visited, and no two sections have the same
\* title.
C19_SectionsMatchVisited ==
    /\ pages_written = Len(doc)
    /\ Headings \subseteq visited
    /\ \A i, j \in DocIdx : doc[i].heading = doc[j].heading => i = j

\* two pages are written and an entry for one of them, queued a second time,
\* has just been skipped
C19_Witness ==
    /\ pc = "loop"
    /\ resp = NoResponse
    /\ Len(doc) >= 2
    /\ cur.url \in Headings

\* the pages within k links of the seed
RECURSIVE Within(_)
Within(k) ==
    IF k = 0 THEN {start_url}
    ELSE LET W == Within(k - 1) IN W \cup UNION { Succ(u) : u \in W }

\* the least number of links from the seed to u, -1 when there is no path
Dist(u) ==
    LET ks == { k \in 0..Cardinality(SitePages) : u \in Within(k) }
    IN IF ks = {} THEN -1 ELSE CHOOSE k \in ks : \A j \in ks : k <= j

\* C20: when the crawl ends with an empty queue and the budget not reached,
\* the addresses fetched are exactly the seed and the in-scope addresses
\* within max_depth links of it, through pages whose link discovery
\* succeeded; each address is dequeued first at its least link distance from
\* the seed; whatever the order in which sibling links are pushed.
C20_FetchedIsReachableSet ==
    /\ []((pc = "done" /\ q = <<>> /\ pages_written < max_pages) =>
            /\ visited = Within(max_depth)
            /\ DOMAIN gets = Within(max_depth))
    /\ [][(pc = "loop" /\ pc' = "extract") => cur'.depth = Dist(cur'.url)]_vars

\* the seed links to B and C, B links to C as well (and off the site), link
\* discovery fails on C: all three pages were fetched, the queue emptied
\* before the budget was reached
C20_Witness ==
    /\ pc = "done"
    /\ q = <<>>
    /\ pages_written < max_pages
    /\ max_depth = 2
    /\ web[PageA].hrefs = { HrefB, HrefC }
    /\ web[PageB].hrefs = { HrefC, HrefO }
    /\ web[PageC].exc # "none"
    /\ visited = SitePages

====
